---- MODULE Spec2Model ----
(***************************************************************************)
(* sitemap-crawler (src/src/main.rs): sitemap discovery, the semaphore-    *)
(* bounded page fetchers, the filename registry and the final report.      *)
(***************************************************************************)
EXTENDS Integers, Sequences, FiniteSets, TLC

VARIABLES
  threads,      \* Args.threads (main.rs:24)
  save_files,   \* Args.save_files (main.rs:32)
  mpc,          \* position of main (main.rs:204-276)
  sitemaps,     \* sitemap_index.sitemaps still to visit (main.rs:87)
  all_urls,     \* all_urls of parse_sitemap_urls (main.rs:81)
  log,          \* every request fetch_sitemap has issued, with its outcome
  urls,         \* urls of main (main.rs:217)
  tasks,        \* tasks of main, one record per spawned worker (main.rs:234)
  permits,      \* free permits of semaphore (main.rs:230)
  holder,       \* index of the task holding the used_names mutex, 0 if free
  used_names,   \* the HashSet behind used_names (main.rs:231)
  files,        \* every fs::write a worker has issued (main.rs:165)
  results,      \* results of main (main.rs:255)
  summary,      \* the statistics of main.rs:271-272
  calls         \* url_to_filename calls of the sequential resolver runs

vars == <<threads, save_files, mpc, sitemaps, all_urls, log, urls, tasks,
          permits, holder, used_names, files, results, summary, calls>>

----------------------------------------------------------------------------
(* Bounds of the model *)

\* most page URLs one run crawls
MaxUrls == 3
\* largest value of --threads
MaxThreads == 2
\* most calls in a sequential run of url_to_filename
MaxCalls == 4

----------------------------------------------------------------------------
(* Strings as character sequences *)

RECURSIVE Str(_)
Str(cs) == IF cs = <<>> THEN "" ELSE Head(cs) \o Str(Tail(cs))

Lower == {"a", "b", "c", "d", "e", "f", "g", "h", "i", "j", "k", "l", "m",
          "n", "o", "p", "q", "r", "s", "t", "u", "v", "w", "x", "y", "z"}
Upper == {"A", "B", "C", "D", "E", "F", "G", "H", "I", "J", "K", "L", "M",
          "N", "O", "P", "Q", "R", "S", "T", "U", "V", "W", "X", "Y", "Z"}
Digit == {"0", "1", "2", "3", "4", "5", "6", "7", "8", "9"}

\* char::is_alphanumeric on the characters the model uses
is_alphanumeric(c) == c \in Lower \cup Upper \cup Digit

----------------------------------------------------------------------------
(* Url::parse on the URLs of the model: host_str() as an Option (<<>> is   *)
(* None) and path(), each a character sequence.                            *)

U1 == "http://x.com/a?x=1"
U2 == "http://x.com/a?x=2"
U3 == "http://x.com/a_2"
U4 == "not a url"
U5 == "mailto:a@b"
U6 == "http://X.com/a b"
U7 == "http://x.com/a#f"

ResolverUrls == {U1, U2, U3, U4, U5, U6, U7}

UrlParse(url) ==
  CASE url = U1 -> [ok |-> TRUE, host |-> <<<<"x", ".", "c", "o", "m">>>>,
                    path |-> <<"/", "a">>]
    [] url = U2 -> [ok |-> TRUE, host |-> <<<<"x", ".", "c", "o", "m">>>>,
                    path |-> <<"/", "a">>]
    [] url = U3 -> [ok |-> TRUE, host |-> <<<<"x", ".", "c", "o", "m">>>>,
                    path |-> <<"/", "a", "_", "2">>]
    [] url = U7 -> [ok |-> TRUE, host |-> <<<<"x", ".", "c", "o", "m">>>>,
                    path |-> <<"/", "a">>]
    [] url = U5 -> [ok |-> TRUE, host |-> <<>>,
                    path |-> <<"a", "@", "b">>]
    [] url = U6 -> [ok |-> TRUE, host |-> <<<<"x", ".", "c", "o", "m">>>>,
                    path |-> <<"/", "a", "%", "2", "0", "b">>]
    [] OTHER    -> [ok |-> FALSE, host |-> <<>>, path |-> <<>>]

\* Url::parse("http://example.com").unwrap() of main.rs:116
FallbackUrl ==
  [ok |-> TRUE,
   host |-> <<<<"e", "x", "a", "m", "p", "l", "e", ".", "c", "o", "m">>>>,
   path |-> <<"/">>]

----------------------------------------------------------------------------
(* url_to_filename (main.rs:115-142) *)

Unknown == <<"u", "n", "k", "n", "o", "w", "n">>

\* filename.replace('/', "_") of main.rs:124
ReplaceSlash(cs) == [i \in DOMAIN cs |-> IF cs[i] = "/" THEN "_" ELSE cs[i]]

\* the character map of main.rs:127-129
Sanitize(cs) ==
  [i \in DOMAIN cs |->
     IF is_alphanumeric(cs[i]) \/ cs[i] = "_" \/ cs[i] = "-" \/ cs[i] = "."
     THEN cs[i] ELSE "_"]

\* filename of main.rs:116-129: host + path, slashes and invalid characters
\* replaced
BaseName(url) ==
  LET parsed_url == IF UrlParse(url).ok THEN UrlParse(url) ELSE FallbackUrl
      host == IF parsed_url.host = <<>> THEN Unknown ELSE parsed_url.host[1]
  IN  Str(Sanitize(ReplaceSlash(host \o parsed_url.path)))

\* format!("{}_{}", filename, counter) of main.rs:136
Suffixed(filename, counter) == filename \o "_" \o ToString(counter)

\* variant: one retry, an if where the loop is
CollisionOnce(filename, final_filename, counter, used) ==
  IF final_filename \in used THEN Suffixed(filename, counter)
  ELSE final_filename

\* the loop of main.rs:135-138, entered with final_filename and counter
RECURSIVE CollisionLoop(_, _, _, _)
CollisionLoop(filename, final_filename, counter, used) ==
  IF final_filename \in used
  THEN CollisionLoop(filename, Suffixed(filename, counter), counter + 1, used)
  ELSE final_filename

\* variant: the counter starts at 1
FinalFilenameFromOne(url, used) ==
  CollisionLoop(BaseName(url), BaseName(url), 1, used)

\* final_filename of main.rs:132-138
FinalFilename(url, used) == CollisionLoop(BaseName(url), BaseName(url), 2, used)

\* used_names.insert(final_filename.clone()) of main.rs:140
InsertName(used, name) == used \cup {name}

\* the whole call: the name returned and the registry it leaves
url_to_filename(url, used) ==
  [filename   |-> FinalFilename(url, used),
   used_names |-> InsertName(used, FinalFilename(url, used))]

----------------------------------------------------------------------------
(* Sitemap documents and their decoding (main.rs:39-59, quick_xml::de)     *)
(* A document is its root element name, the child elements the text holds  *)
(* complete, in document order, and what follows them; an element is its   *)
(* tag and the texts of its <loc> children.                                *)

RootUrl == "http://x.com/sitemap.xml"
S1 == "http://x.com/s1.xml"
S2 == "http://x.com/s2.xml"

Elem(tag, locs) == [tag |-> tag, locs |-> locs]

\* what follows the complete child elements: the root's end tag and the end
\* of the text; the root's end tag and then text that is not XML, as in
\* <urlset>...</urlset></extra>; or the end of the text inside a child left
\* open, as in <urlset><url>
AtEnd == "end"
Trailing == "trailing"
Truncated == "truncated"

DocUrlsetA ==
  [rest |-> AtEnd, root |-> "urlset",
   entries |-> <<Elem("url", <<U1>>), Elem("url", <<U2>>)>>]
\* <urlset><url><loc>not a url</loc></url></urlset></extra>
DocUrlsetB ==
  [rest |-> Trailing, root |-> "urlset",
   entries |-> <<Elem("url", <<U4>>)>>]
DocIndex ==
  [rest |-> AtEnd, root |-> "sitemapindex",
   entries |-> <<Elem("sitemap", <<S1>>), Elem("sitemap", <<S2>>)>>]
DocMixed ==
  [rest |-> AtEnd, root |-> "sitemapindex",
   entries |-> <<Elem("sitemap", <<>>), Elem("url", <<U3>>)>>]
DocNoLoc ==
  [rest |-> AtEnd, root |-> "urlset", entries |-> <<Elem("url", <<>>)>>]
\* <urlset><url>
DocBad ==
  [rest |-> Truncated, root |-> "urlset", entries |-> <<>>]

Docs == {DocUrlsetA, DocUrlsetB, DocIndex, DocMixed, DocNoLoc, DocBad}

\* the positions of the child elements named tag
TagPositions(doc, tag) == {i \in DOMAIN doc.entries : doc.entries[i].tag = tag}

RECURSIVE LocsOf(_, _)
LocsOf(entries, tag) ==
  IF entries = <<>> THEN <<>>
  ELSE IF Head(entries).tag = tag
       THEN <<Head(entries).locs[1]>> \o LocsOf(Tail(entries), tag)
       ELSE LocsOf(Tail(entries), tag)

\* from_str::<T>(&content) for the structs of main.rs:39-59, whose one field
\* is the list of child elements named tag (serde default: an absent list is
\* empty). The root element's name is not compared with anything and
\* elements of other names are skipped. The decoder stops at the root's end
\* tag and reads nothing after it. It fails when the text ends before the
\* root's end tag, on a list element without exactly one <loc> (missing /
\* duplicate field), and on a list split by other elements (duplicate
\* field).
Decode(doc, tag) ==
  LET pos == TagPositions(doc, tag)
      contiguous == \A i \in pos, j \in pos :
                       \A k \in i..j : k \in pos
      complete == \A i \in pos : Len(doc.entries[i].locs) = 1
  IN  IF doc.rest # Truncated /\ contiguous /\ complete
      THEN [ok |-> TRUE, locs |-> LocsOf(doc.entries, tag)]
      ELSE [ok |-> FALSE, locs |-> <<>>]

\* variant: a Urlset is decoded from a <urlset> root only
DecodeUrlsetStrict(doc) ==
  IF doc.root = "urlset" THEN Decode(doc, "url")
  ELSE [ok |-> FALSE, locs |-> <<>>]

\* from_str::<SitemapIndex> (main.rs:84) and from_str::<Urlset> (main.rs:109)
DecodeSitemapIndex(doc) == Decode(doc, "sitemap")
DecodeUrlset(doc) == Decode(doc, "url")

----------------------------------------------------------------------------
(* fetch_sitemap (main.rs:71-77). A response is whether send() returned    *)
(* one, its status, and its text as an Option (<<>>: text() failed).       *)

SitemapResponses ==
  {[sent |-> FALSE, status |-> 0, text |-> <<>>],
   [sent |-> TRUE, status |-> 500, text |-> <<>>],
   [sent |-> TRUE, status |-> 200, text |-> <<>>]}
  \cup {[sent |-> TRUE, status |-> 200, text |-> <<d>>] : d \in Docs}

\* StatusCode::is_success
is_success(status) == status >= 200 /\ status <= 299

fetch_sitemap(resp) ==
  IF ~resp.sent THEN [ok |-> FALSE, content |-> <<>>]
  ELSE IF ~is_success(resp.status) THEN [ok |-> FALSE, content |-> <<>>]
  ELSE IF resp.text = <<>> THEN [ok |-> FALSE, content |-> <<>>]
  ELSE [ok |-> TRUE, content |-> resp.text]

\* parse_single_sitemap (main.rs:106-113) on the response its fetch gets
parse_single_sitemap(resp) ==
  LET fetched == fetch_sitemap(resp)
  IN  IF ~fetched.ok THEN [ok |-> FALSE, locs |-> <<>>]
      ELSE DecodeUrlset(fetched.content[1])

----------------------------------------------------------------------------
(* Initial state: Args::parse() has returned (main.rs:205) *)

Init ==
  /\ threads \in 0..MaxThreads
  /\ save_files \in BOOLEAN
  /\ mpc = "setup"
  /\ sitemaps = <<>>
  /\ all_urls = <<>>
  /\ log = <<>>
  /\ urls = <<>>
  /\ tasks = <<>>
  /\ permits = 0
  /\ holder = 0
  /\ used_names = {}
  /\ files = {}
  /\ results = <<>>
  /\ summary = <<>>
  /\ calls = <<>>

crawl_vars == <<urls, tasks, permits, holder, used_names, files, results,
                summary>>
discovery_vars == <<sitemaps, all_urls, log>>

----------------------------------------------------------------------------
(* main: setup and sitemap discovery (main.rs:208-218, 79-104) *)

\* fs::create_dir_all and Client::builder().build(), main.rs:208-212
Setup ==
  /\ mpc = "setup"
  /\ \E ok \in BOOLEAN : mpc' = IF ok THEN "fetch_root" ELSE "exit_setup"
  /\ UNCHANGED <<threads, save_files, discovery_vars, crawl_vars, calls>>

\* main.rs:80-85 and 98: fetch the root, try it as a sitemap index
FetchRoot ==
  /\ mpc = "fetch_root"
  /\ \E resp \in SitemapResponses :
       LET fetched == fetch_sitemap(resp)
           sitemap_index == DecodeSitemapIndex(fetched.content[1])
       IN  /\ log' = Append(log, [url |-> RootUrl, resp |-> resp])
           /\ IF ~fetched.ok
              THEN mpc' = "exit_discovery" /\ sitemaps' = sitemaps
              ELSE IF sitemap_index.ok
              THEN /\ sitemaps' = sitemap_index.locs
                   /\ mpc' = IF sitemap_index.locs = <<>>
                             THEN "parsed" ELSE "children"
              ELSE mpc' = "single" /\ sitemaps' = sitemaps
  /\ UNCHANGED <<threads, save_files, all_urls, crawl_vars, calls>>

\* variant: a failing child discards what was collected
AppendChildReset(all, parsed) == IF parsed.ok THEN all \o parsed.locs ELSE <<>>

\* the match of main.rs:88-96: all_urls after one child
AppendChild(all, parsed) == IF parsed.ok THEN all \o parsed.locs ELSE all

\* main.rs:87-97: one iteration of the loop over sitemap_index.sitemaps
ChildSitemap ==
  /\ mpc = "children"
  /\ sitemaps # <<>>
  /\ \E resp \in SitemapResponses :
       LET parsed == parse_single_sitemap(resp)
       IN  /\ Len(all_urls) + Len(parsed.locs) <= MaxUrls
           /\ log' = Append(log, [url |-> Head(sitemaps), resp |-> resp])
           /\ all_urls' = AppendChild(all_urls, parsed)
  /\ sitemaps' = Tail(sitemaps)
  /\ mpc' = IF Tail(sitemaps) = <<>> THEN "parsed" ELSE "children"
  /\ UNCHANGED <<threads, save_files, crawl_vars, calls>>

\* main.rs:100: the root did not decode as an index
SingleSitemap ==
  /\ mpc = "single"
  /\ \E resp \in SitemapResponses :
       LET parsed == parse_single_sitemap(resp)
       IN  /\ Len(parsed.locs) <= MaxUrls
           /\ log' = Append(log, [url |-> RootUrl, resp |-> resp])
           /\ IF parsed.ok
              THEN all_urls' = parsed.locs /\ mpc' = "parsed"
              ELSE all_urls' = all_urls /\ mpc' = "exit_discovery"
  /\ UNCHANGED <<threads, save_files, sitemaps, crawl_vars, calls>>

\* main.rs:103 and 217-234: parse_sitemap_urls returns Ok(all_urls); main
\* creates the semaphore, the registry and the empty task list
StartCrawl ==
  /\ mpc = "parsed"
  /\ urls' = all_urls
  /\ permits' = threads
  /\ used_names' = {}
  /\ tasks' = <<>>
  /\ mpc' = IF all_urls = <<>> THEN "report" ELSE "spawn"
  /\ UNCHANGED <<threads, save_files, discovery_vars, holder, files, results,
                 summary, calls>>

----------------------------------------------------------------------------
(* The worker tasks (main.rs:244-249) and fetch_page (main.rs:144-201) *)

None == <<>>
Some(x) == <<x>>

NewTask(url) ==
  [pc |-> "acquire", url |-> url, status_code |-> 0, content_length |-> 0,
   mime_type |-> "", body |-> 0, filename |-> None, error |-> None,
   outcome |-> "pending"]

\* what a server answers to a page request: status, content-type header
\* (an Option) and the length of the body it sends
PageResponses ==
  {[status_code |-> 200, content_type |-> Some("text/html"), body |-> 7],
   [status_code |-> 404, content_type |-> None, body |-> 0]}

\* main.rs:148-153
MimeOf(resp) ==
  IF resp.content_type = None THEN "unknown" ELSE resp.content_type[1]

Spawned == DOMAIN tasks

\* tasks that hold a permit: past main.rs:245 and not yet returned
HoldsPermit(i) == tasks[i].pc \notin {"acquire", "done"}
InFlight == {i \in Spawned : HoldsPermit(i)}

\* variant: the gate admits every task
CanAcquireAlways(free) == TRUE

\* variant: the gate keeps one permit back
CanAcquireSpare(free) == free > 1

\* semaphore.acquire().await can return (main.rs:245)
CanAcquire(free) == free > 0

\* variant: the files are saved whatever the flag says
SaveRequestedAlways(flag) == TRUE

\* if save_files, main.rs:159
SaveRequested(flag) == flag

\* variant: the guard is kept after the name is inserted
GuardKept(h) == h

\* the lock's holder after drop(names_guard), main.rs:162: nobody
GuardDropped(h) == 0

\* variant: the lock excludes nobody
CanLockAlways(h) == TRUE

\* used_names.lock().await can return (main.rs:160)
CanLock(h) == h = 0

\* the PageResult fields of main.rs:193-199
RequestFailed(t) ==
  [t EXCEPT !.status_code = 0, !.content_length = 0, !.mime_type = "unknown",
            !.error = Some("Request failed")]

\* variant: a failed body read reported like a failed request
BodyFailedAsRequest(t) ==
  [t EXCEPT !.status_code = 0, !.content_length = 0, !.mime_type = "unknown",
            !.error = Some("Failed to read response body")]

\* the PageResult fields of main.rs:184-190
BodyFailed(t) ==
  [t EXCEPT !.content_length = 0,
            !.error = Some("Failed to read response body")]

\* variant: the write error is dropped
SaveFailedSilent(t) == t

\* the PageResult fields of main.rs:166-172
SaveFailed(t) == [t EXCEPT !.error = Some("Failed to save file")]

\* variant: a status outside 2xx is reported as an error
CleanOnly2xx(t) ==
  [t EXCEPT !.error = IF is_success(t.status_code) THEN None
                      ELSE Some("HTTP error")]

\* the PageResult fields of main.rs:176-182
Clean(t) == [t EXCEPT !.error = None]

\* the task ends: its PageResult is final and _permit is dropped
Finish(i, t) ==
  /\ tasks' = [tasks EXCEPT ![i] = [t EXCEPT !.pc = "done"]]
  /\ permits' = permits + 1

Acquire(i) ==
  /\ tasks[i].pc = "acquire"
  /\ CanAcquire(permits)
  /\ permits' = permits - 1
  /\ tasks' = [tasks EXCEPT ![i].pc = "send"]
  /\ UNCHANGED <<threads, save_files, mpc, discovery_vars, urls, holder,
                 used_names, files, results, summary, calls>>

\* client.get(url).send().await, main.rs:145-153 and 193-199
Send(i) ==
  /\ tasks[i].pc = "send"
  /\ \/ Finish(i, RequestFailed([tasks[i] EXCEPT !.outcome = "request"]))
     \/ \E resp \in PageResponses :
          /\ tasks' = [tasks EXCEPT ![i] =
                         [@ EXCEPT !.pc = "read",
                                   !.status_code = resp.status_code,
                                   !.mime_type = MimeOf(resp),
                                   !.body = resp.body]]
          /\ permits' = permits
  /\ UNCHANGED <<threads, save_files, mpc, discovery_vars, urls, holder,
                 used_names, files, results, summary, calls>>

\* response.bytes().await, main.rs:155-157, 175-190
ReadBody(i) ==
  /\ tasks[i].pc = "read"
  /\ \/ Finish(i, BodyFailed([tasks[i] EXCEPT !.outcome = "body"]))
     \/ /\ SaveRequested(save_files)
        /\ tasks' = [tasks EXCEPT ![i] =
                       [@ EXCEPT !.pc = "lock",
                                 !.content_length = tasks[i].body]]
        /\ permits' = permits
     \/ /\ ~SaveRequested(save_files)
        /\ Finish(i, Clean([tasks[i] EXCEPT !.outcome = "ok",
                               !.content_length = tasks[i].body]))
  /\ UNCHANGED <<threads, save_files, mpc, discovery_vars, urls, holder,
                 used_names, files, results, summary, calls>>

\* used_names.lock().await returns the guard, main.rs:160
Lock(i) ==
  /\ tasks[i].pc = "lock"
  /\ CanLock(holder)
  /\ holder' = i
  /\ tasks' = [tasks EXCEPT ![i].pc = "resolve"]
  /\ UNCHANGED <<threads, save_files, mpc, discovery_vars, urls, permits,
                 used_names, files, results, summary, calls>>

\* url_to_filename up to its loop's exit, main.rs:116-138
Resolve(i) ==
  /\ tasks[i].pc = "resolve"
  /\ tasks' = [tasks EXCEPT ![i] =
                 [@ EXCEPT !.pc = "insert",
                           !.filename =
                             Some(FinalFilename(tasks[i].url, used_names))]]
  /\ UNCHANGED <<threads, save_files, mpc, discovery_vars, urls, permits,
                 holder, used_names, files, results, summary, calls>>

\* main.rs:140-141 and drop(names_guard), main.rs:162
Insert(i) ==
  /\ tasks[i].pc = "insert"
  /\ used_names' = InsertName(used_names, tasks[i].filename[1])
  /\ holder' = GuardDropped(holder)
  /\ tasks' = [tasks EXCEPT ![i].pc = "write"]
  /\ UNCHANGED <<threads, save_files, mpc, discovery_vars, urls, permits,
                 files, results, summary, calls>>

\* fs::write(&file_path, &content), main.rs:164-182
Write(i) ==
  /\ tasks[i].pc = "write"
  /\ files' = files \cup {[name |-> tasks[i].filename[1], by |-> i]}
  /\ \/ Finish(i, Clean([tasks[i] EXCEPT !.outcome = "ok"]))
     \/ Finish(i, SaveFailed([tasks[i] EXCEPT !.outcome = "save"]))
  /\ UNCHANGED <<threads, save_files, mpc, discovery_vars, urls, holder,
                 used_names, results, summary, calls>>

----------------------------------------------------------------------------
(* main: spawning, joining and the report (main.rs:236-275) *)

\* the url the loop of main.rs:236 hands to its n+1st task
SpawnUrl(us, n) == us[n + 1]

\* tokio::spawn and tasks.push, main.rs:236-252
Spawn ==
  /\ mpc = "spawn"
  /\ Len(tasks) < Len(urls)
  /\ tasks' = Append(tasks, NewTask(SpawnUrl(urls, Len(tasks))))
  /\ mpc' = IF Len(tasks) + 1 = Len(urls) THEN "join" ELSE "spawn"
  /\ UNCHANGED <<threads, save_files, discovery_vars, urls, permits, holder,
                 used_names, files, results, summary, calls>>

\* the PageResult a finished task returns
PageResultOf(t) ==
  [url |-> t.url, status_code |-> t.status_code,
   content_length |-> t.content_length, mime_type |-> t.mime_type,
   error |-> t.error]

\* variant: the handle is read without waiting for the task
JoinableAlways(t) == TRUE

\* task.await returns (main.rs:257)
Joinable(t) == t.pc = "done"

\* variant: the tasks are awaited from the last one back
JoinIndexFromEnd(n, total) == total - n

\* the task the loop of main.rs:256 awaits after n results, of total tasks
JoinIndex(n, total) == n + 1

\* variant: a result that carries an error ends the run
AfterJoinFailFast(r, last) ==
  IF r.error # None THEN "exit_report"
  ELSE IF last THEN "report" ELSE "join"

\* where main goes once task.await? has given the result r, main.rs:256-258:
\* round the loop again, or on to the report after the last task; the ? is
\* for a JoinError only, whatever r.error holds
AfterJoin(r, last) == IF last THEN "report" ELSE "join"

\* results.push(task.await?), main.rs:256-258
Join ==
  /\ mpc = "join"
  /\ Len(results) < Len(tasks)
  /\ Joinable(tasks[JoinIndex(Len(results), Len(tasks))])
  /\ results' = Append(results,
                       PageResultOf(tasks[JoinIndex(Len(results), Len(tasks))]))
  /\ mpc' = AfterJoin(PageResultOf(tasks[JoinIndex(Len(results), Len(tasks))]),
                      Len(results) + 1 = Len(tasks))
  /\ UNCHANGED <<threads, save_files, discovery_vars, urls, tasks, permits,
                 holder, used_names, files, summary, calls>>

\* variant: success read off the HTTP status
SuccessfulBy2xx(rs) ==
  Cardinality({i \in DOMAIN rs : is_success(rs[i].status_code)})

\* main.rs:271
Successful(rs) == Cardinality({i \in DOMAIN rs : rs[i].error = None})

\* main.rs:263-275: write results.json, then the statistics
Report ==
  /\ mpc = "report"
  /\ \/ /\ summary' = Some([report |-> results,
                            successful |-> Successful(results),
                            failed |-> Len(results) - Successful(results)])
        /\ mpc' = "done"
     \/ /\ summary' = summary
        /\ mpc' = "exit_report"
  /\ UNCHANGED <<threads, save_files, discovery_vars, urls, tasks, permits,
                 holder, used_names, files, results, calls>>

Next ==
  \/ Setup
  \/ FetchRoot
  \/ ChildSitemap
  \/ SingleSitemap
  \/ StartCrawl
  \/ Spawn
  \/ \E i \in Spawned : Acquire(i)
  \/ \E i \in Spawned : Send(i)
  \/ \E i \in Spawned : ReadBody(i)
  \/ \E i \in Spawned : Lock(i)
  \/ \E i \in Spawned : Resolve(i)
  \/ \E i \in Spawned : Insert(i)
  \/ \E i \in Spawned : Write(i)
  \/ Join
  \/ Report

Spec == Init /\ [][Next]_vars

----------------------------------------------------------------------------
(* Sequential runs of url_to_filename against one registry *)

\* names a registry may hold from URLs met before
SeedNames == {"x.com_a", "x.com_a_3"}

InitNames ==
  /\ threads = 1
  /\ save_files = TRUE
  /\ mpc = "setup"
  /\ sitemaps = <<>>
  /\ all_urls = <<>>
  /\ log = <<>>
  /\ urls = <<>>
  /\ tasks = <<>>
  /\ permits = 0
  /\ holder = 0
  /\ used_names \in SUBSET SeedNames
  /\ files = {}
  /\ results = <<>>
  /\ summary = <<>>
  /\ calls = <<>>

ResolverCall(url) ==
  /\ Len(calls) < MaxCalls
  /\ used_names' = url_to_filename(url, used_names).used_names
  /\ calls' = Append(calls, [url |-> url, before |-> used_names,
                             filename |-> url_to_filename(url, used_names).filename])
  /\ UNCHANGED <<threads, save_files, mpc, discovery_vars, urls, tasks,
                 permits, holder, files, results, summary>>

NextNames == \E url \in ResolverUrls : ResolverCall(url)

SpecNames == InitNames /\ [][NextNames]_vars

----------------------------------------------------------------------------
(* Properties of the scheduler (main.rs:229-273) *)

TaskDone(i) == tasks[i].pc = "done"

\* main is inside the spawn loop or the join loop
Crawling == mpc \in {"spawn", "join"}

\* C1: the tasks that have acquired a permit and not yet released it are
\* never more than --threads.
C1_AdmissionBound == Cardinality(InFlight) <= threads

\* C1 witness: every permit is taken while another task waits at the gate.
C1_GateFull ==
  /\ threads >= 2
  /\ Cardinality(InFlight) = threads
  /\ \E i \in Spawned : tasks[i].pc = "acquire"

\* C2: with save_files, no two workers of a run are given the same filename,
\* so no fs::write of a worker goes to a path another worker writes, although
\* the write comes after the registry lock is released.
C2_DistinctFiles ==
  /\ \A i \in Spawned : \A j \in Spawned :
       (i # j /\ tasks[i].filename # None /\ tasks[j].filename # None)
         => tasks[i].filename # tasks[j].filename
  /\ \A f \in files : \A g \in files : f.name = g.name => f.by = g.by

\* C2 witness: two workers whose URLs derive the same base name are both
\* past the lock with their writes pending at the same time.
C2_ConcurrentWrites ==
  \E i \in Spawned : \E j \in Spawned :
    /\ i # j
    /\ tasks[i].url # tasks[j].url
    /\ BaseName(tasks[i].url) = BaseName(tasks[j].url)
    /\ tasks[i].pc = "write"
    /\ tasks[j].pc = "write"

\* C3: results holds one PageResult per spawned URL in spawn order,
\* results[i].url = urls[i], whatever order the tasks finished in, and the
\* report written is that sequence, one entry per URL.
C3_ReportInSpawnOrder ==
  /\ Len(results) <= Len(urls)
  /\ \A i \in DOMAIN results : results[i].url = urls[i]
  /\ summary # None =>
       /\ Len(summary[1].report) = Len(urls)
       /\ \A i \in DOMAIN urls : summary[1].report[i].url = urls[i]

\* C3 witness: a task spawned later has finished before an earlier one
\* while the join loop has already taken the first result.
C3_OutOfOrderCompletion ==
  /\ Len(results) = 1
  /\ Len(tasks) = 3
  /\ TaskDone(3)
  /\ ~TaskDone(2)

\* remaining steps of a task
TaskRank(t) ==
  CASE t.pc = "acquire" -> 7
    [] t.pc = "send"    -> 6
    [] t.pc = "read"    -> 5
    [] t.pc = "lock"    -> 4
    [] t.pc = "resolve" -> 3
    [] t.pc = "insert"  -> 2
    [] t.pc = "write"   -> 1
    [] OTHER            -> 0

RECURSIVE SumRanks(_)
SumRanks(ts) == IF ts = <<>> THEN 0 ELSE TaskRank(Head(ts)) + SumRanks(Tail(ts))

PhaseRank ==
  CASE mpc = "setup"      -> 7
    [] mpc = "fetch_root" -> 6
    [] mpc = "single"     -> 5
    [] mpc = "children"   -> 5
    [] mpc = "parsed"     -> 4
    [] mpc = "spawn"      -> 3
    [] mpc = "join"       -> 2
    [] mpc = "report"     -> 1
    [] OTHER              -> 0

\* a natural number that every step of the run decreases
Rank ==
  PhaseRank * (10 * (MaxUrls + 1))
  + Len(sitemaps)
  + 8 * (Len(urls) - Len(tasks)) + SumRanks(tasks)
  + (Len(urls) - Len(results))

\* a task is inside a network, file or registry operation, which the claim
\* takes to return
OperationPending == \E i \in Spawned : tasks[i].pc \notin {"acquire", "lock", "done"}

\* main is in its loops and no operation is pending: only the gate, the lock
\* or main itself can move the run on
Waiting == Crawling /\ ~OperationPending

\* C4 as stated: for any --threads, given that every network and file
\* operation returns, the run never stops inside the spawn and join loops,
\* so that under fair scheduling every task completes and the scheduler gets
\* to the report.
C4_AnyLimitReturns == Waiting => ENABLED Next

\* C4 amended: for --threads >= 1, given that every network and file
\* operation returns, the run never stops inside the spawn and join loops,
\* and every step decreases the natural number Rank; so under fair scheduling
\* every task acquires a permit, fetches and completes, and main leaves the
\* join loop with all results.
C4_PositiveLimitReturns ==
  /\ []((threads >= 1 /\ Waiting) => ENABLED Next)
  /\ [][Rank' < Rank]_vars
  /\ [](Rank >= 0)
  /\ [](mpc \in {"report", "done", "exit_report"} =>
          /\ Len(tasks) = Len(urls)
          /\ \A i \in Spawned : TaskDone(i) /\ tasks[i].outcome # "pending")

\* C4 witness: with one permit and three tasks, the last task is fetching
\* after the others finished, and later main has all results.
C4_LastTaskAdmitted ==
  /\ threads = 1
  /\ Len(tasks) = 3
  /\ TaskDone(1) /\ TaskDone(2)
  /\ tasks[3].pc = "read"

\* C5: the report and the counts exist only when every spawned task has
\* completed and been joined; a failed task does not stop the others from
\* running to completion.
C5_FullBarrier ==
  (mpc \in {"report", "done", "exit_report"} \/ summary # None) =>
     /\ Len(tasks) = Len(urls)
     /\ \A i \in Spawned : TaskDone(i)
     /\ results = [i \in DOMAIN tasks |-> PageResultOf(tasks[i])]

\* C5 witness: the report is written after the first task failed at the
\* transport level and a later one fetched its page.
C5_ReportAfterFailure ==
  /\ mpc = "done"
  /\ Len(results) >= 2
  /\ results[1].error = Some("Request failed")
  /\ results[2].error = None
  /\ results[2].status_code = 200

----------------------------------------------------------------------------
(* Properties of sitemap discovery (main.rs:71-113) *)

\* parse_sitemap_urls has returned
DiscoveryOver == mpc \notin {"setup", "fetch_root", "children", "single"}

\* the root request got a 2xx response with readable text
RootFetched ==
  /\ log # <<>>
  /\ log[1].resp.sent
  /\ is_success(log[1].resp.status)
  /\ log[1].resp.text # <<>>

RootDoc == log[1].resp.text[1]

\* a urlset document: <urlset> holding <url> elements with one <loc> each
IsUrlsetDoc(d) ==
  /\ d.rest = AtEnd
  /\ d.root = "urlset"
  /\ \A i \in DOMAIN d.entries :
       d.entries[i].tag = "url" /\ Len(d.entries[i].locs) = 1

\* a sitemap index: <sitemapindex> holding <sitemap> elements with one <loc>
IsIndexDoc(d) ==
  /\ d.rest = AtEnd
  /\ d.root = "sitemapindex"
  /\ \A i \in DOMAIN d.entries :
       d.entries[i].tag = "sitemap" /\ Len(d.entries[i].locs) = 1

\* the loc values of a document in document order
DocLocs(d) == [i \in DOMAIN d.entries |-> d.entries[i].locs[1]]

\* C6: for a root document that is a urlset, parse_sitemap_urls returns
\* exactly its loc values in document order, repeated ones kept.
C6_UrlsetLocs ==
  (RootFetched /\ IsUrlsetDoc(RootDoc) /\ DiscoveryOver) =>
     /\ mpc # "exit_discovery"
     /\ all_urls = DocLocs(RootDoc)

\* what the child requests logged so far contribute, in order
RECURSIVE Contributions(_)
Contributions(entries) ==
  IF entries = <<>> THEN <<>>
  ELSE parse_single_sitemap(Head(entries).resp).locs
       \o Contributions(Tail(entries))

\* C7: for a sitemap-index root with K children, parse_sitemap_urls fetches
\* each child once in document order, K fetches in all, and returns the
\* concatenation in document order of the locations of the children that
\* fetched and parsed; a failing child adds nothing, does not abort discovery
\* and leaves the others' contributions and order alone.
C7_IndexChildren ==
  (RootFetched /\ IsIndexDoc(RootDoc)) =>
     /\ mpc # "exit_discovery"
     /\ Len(log) <= 1 + Len(DocLocs(RootDoc))
     /\ \A k \in 2..Len(log) : log[k].url = DocLocs(RootDoc)[k - 1]
     /\ all_urls = Contributions(Tail(log))
     /\ DiscoveryOver => Len(log) = 1 + Len(DocLocs(RootDoc))

\* C7 witness: discovery returned for an index whose first child answered
\* 500 and whose second child gave two page locations.
C7_SecondChildSurvives ==
  /\ mpc = "parsed"
  /\ RootFetched
  /\ IsIndexDoc(RootDoc)
  /\ Len(log) = 3
  /\ log[2].resp.status = 500
  /\ all_urls = <<U1, U2>>

----------------------------------------------------------------------------
(* Properties of url_to_filename (main.rs:115-142) *)

\* the registry a logged call left behind
RegistryAfter(k) == IF k = Len(calls) THEN used_names ELSE calls[k + 1].before

\* C8: with a fresh registry, N calls whose URLs all derive the same base
\* name return, in call order, base, base_2, base_3, ..., base_N.
C8_SameBaseSequence ==
  (/\ calls # <<>>
   /\ calls[1].before = {}
   /\ \A k \in DOMAIN calls : BaseName(calls[k].url) = BaseName(calls[1].url))
  => \A k \in DOMAIN calls :
       calls[k].filename = IF k = 1 THEN BaseName(calls[1].url)
                           ELSE Suffixed(BaseName(calls[1].url), k)

\* C8 witness: three distinct URLs with the base x.com_a, the third named
\* x.com_a_3.
C8_ThreeSameBase ==
  /\ Len(calls) >= 3
  /\ calls[1].before = {}
  /\ calls[1].url = U1 /\ calls[2].url = U2 /\ calls[3].url = U7
  /\ calls[1].filename = "x.com_a"
  /\ calls[3].filename = "x.com_a_3"

\* C9: url_to_filename returns the base name if the registry lacks it, else
\* base_k for the smallest k >= 2 with base_k not in the registry; the name
\* returned was absent before the call and is present after it, nothing else
\* enters or leaves the registry, and a later call for the same URL returns a
\* different name.
C9_FirstFreeName ==
  \A k \in DOMAIN calls :
    LET c == calls[k]
        base == BaseName(c.url)
    IN  /\ base \notin c.before => c.filename = base
        /\ base \in c.before =>
             \E n \in 2..(Cardinality(c.before) + 2) :
               /\ c.filename = Suffixed(base, n)
               /\ \A m \in 2..(n - 1) : Suffixed(base, m) \in c.before
        /\ c.filename \notin c.before
        /\ RegistryAfter(k) = c.before \cup {c.filename}
        /\ \A j \in DOMAIN calls :
             (j > k /\ calls[j].url = c.url) => calls[j].filename # c.filename

\* C9 witness: the registry held x.com_a and x.com_a_3; the same URL is
\* resolved twice and gets x.com_a_2, then x.com_a_4.
C9_SkipsTakenSuffix ==
  /\ Len(calls) >= 2
  /\ calls[1].before = {"x.com_a", "x.com_a_3"}
  /\ calls[1].url = U1 /\ calls[2].url = U1
  /\ calls[1].filename = "x.com_a_2"
  /\ calls[2].filename = "x.com_a_4"

----------------------------------------------------------------------------
(* Properties of fetch_page (main.rs:144-201) *)

\* C10: in every PageResult of fetch_page, error is set exactly when the
\* request, the body read or the file save failed; and status_code = 0 comes
\* only with error set, content_length 0 and mime_type "unknown".
C10_ErrorIffFailed ==
  \A i \in Spawned :
    TaskDone(i) =>
      LET r == PageResultOf(tasks[i])
      IN  /\ r.error # None <=> tasks[i].outcome \in {"request", "body", "save"}
          /\ r.status_code = 0 =>
               /\ r.error # None
               /\ r.content_length = 0
               /\ r.mime_type = "unknown"

\* C10 witness: one task failed at the transport level, another fetched its
\* page and failed to save it.
C10_BothFailures ==
  \E i \in Spawned : \E j \in Spawned :
    /\ TaskDone(i) /\ TaskDone(j)
    /\ tasks[i].outcome = "request" /\ tasks[i].status_code = 0
    /\ tasks[j].outcome = "save" /\ tasks[j].status_code = 200
    /\ tasks[j].content_length = 7
    /\ tasks[j].error = Some("Failed to save file")

----------------------------------------------------------------------------
(* Properties of the summary and of the exit status (main.rs:216-275) *)

\* the results that carry an error, and those that do not
WithError(rs) == {i \in DOMAIN rs : rs[i].error # None}
WithoutError(rs) == {i \in DOMAIN rs : rs[i].error = None}

\* C11: when the summary is printed, successful + failed is the number of
\* results, successful is the number of results without an error and failed
\* the number of results with one.
C11_CountsAddUp ==
  summary # None =>
    /\ summary[1].successful + summary[1].failed = Len(results)
    /\ summary[1].successful = Cardinality(WithoutError(results))
    /\ summary[1].failed = Cardinality(WithError(results))

\* C11 witness: a summary over three results, a 200 that failed, a 404 that
\* did not, and one more.
C11_MixedSummary ==
  /\ summary # None
  /\ Len(results) = 3
  /\ results[1].status_code = 200 /\ results[1].error # None
  /\ results[2].status_code = 404 /\ results[2].error = None
  /\ summary[1].failed >= 1
  /\ summary[1].successful >= 1

\* discovery ended with no page URL: it failed, or it returned an empty list
NoUrlsObtained ==
  \/ mpc = "exit_discovery"
  \/ /\ DiscoveryOver
     /\ mpc # "exit_setup"
     /\ all_urls = <<>>

\* C12: whenever discovery obtains no page URL, a root that cannot be
\* fetched or parsed or an index whose children all fail, the process exits
\* non-zero and no page fetch task is started.
C12_NoUrlsExitsNonZero ==
  NoUrlsObtained =>
     /\ tasks = <<>>
     /\ mpc # "done"

\* parse_sitemap_urls returned a URL list to main (main.rs:217)
ListReturned == DiscoveryOver /\ mpc \notin {"exit_setup", "exit_discovery"}

\* the three ways a page fetch fails
PageFailures == {"request", "body", "save"}

\* C13: once discovery has returned a URL list, per-page failures never end
\* the run: main leaves the crawl only for the report, with every URL
\* fetched and one result per URL in order, each failure recorded in its
\* result's error; the run exits 0 exactly when results.json was written,
\* and the only other exit is that write itself failing.
C13_PageFailuresNeverAbort ==
  ListReturned =>
     /\ mpc \in {"parsed", "spawn", "join", "report", "done", "exit_report"}
     /\ mpc \in {"report", "done", "exit_report"} =>
          /\ Len(results) = Len(all_urls)
          /\ Len(tasks) = Len(all_urls)
          /\ \A i \in DOMAIN results :
               /\ results[i].url = all_urls[i]
               /\ tasks[i].outcome # "pending"
               /\ tasks[i].outcome \in PageFailures => results[i].error # None
     /\ mpc = "done" <=> summary # None
     /\ summary # None => summary[1].report = results

\* C13 witness: the run ended with exit 0 after three URLs failed in the
\* three ways, one each.
C13_AllThreeFailuresExitZero ==
  /\ mpc = "done"
  /\ Len(results) = 3
  /\ {tasks[i].outcome : i \in DOMAIN tasks} = PageFailures
  /\ summary[1].failed = 3

----------------------------------------------------------------------------
(* The extent of the registry lock (main.rs:159-165) *)

\* the workers between used_names.lock() returning and the given position
InSection(pcs) == {i \in Spawned : tasks[i].pc \in pcs}

\* C14 as stated: at most one worker is between acquiring the registry lock
\* and finishing its file write.
C14_WriteInsideLock ==
  Cardinality(InSection({"resolve", "insert", "write"})) <= 1

\* C14 amended: the critical section is the registry check-and-insert only;
\* at most one worker is between acquiring the lock and dropping it, that
\* worker is the lock's holder, and a worker writing its file holds no lock.
C14_LockCoversRegistryOnly ==
  /\ Cardinality(InSection({"resolve", "insert"})) <= 1
  /\ \A i \in InSection({"resolve", "insert"}) : holder = i
  /\ \A i \in InSection({"write"}) : holder # i
  /\ holder # 0 => holder \in InSection({"resolve", "insert"})

\* C14 witness: one worker is writing its file while another holds the lock
\* with its name resolved.
C14_WriteBesideLockHolder ==
  \E i, j \in Spawned :
    /\ i # j
    /\ tasks[i].pc = "write"
    /\ tasks[j].pc = "insert"
    /\ holder = j

----------------------------------------------------------------------------
(* The shapes of a PageResult (main.rs:144-201) *)

\* r carries the status and the mime type of a response whose body is n long
FromResponse(r, n) ==
  \E resp \in PageResponses :
    /\ r.status_code = resp.status_code
    /\ r.mime_type = MimeOf(resp)
    /\ n = resp.body

\* C15: fetch_page gives each outcome one record shape: a transport failure
\* has status 0, length 0, mime "unknown" and an error; a failed body read
\* has the response's status and mime, length 0 and an error; a failed file
\* write has the response's status and mime, the body's length and an error;
\* otherwise status, mime and length are populated and error is unset.
C15_ShapePerOutcome ==
  \A i \in Spawned :
    TaskDone(i) =>
      LET r == PageResultOf(tasks[i])
          o == tasks[i].outcome
      IN  /\ r.url = tasks[i].url
          /\ o \in {"request", "body", "save", "ok"}
          /\ o = "request" =>
               /\ r.status_code = 0
               /\ r.content_length = 0
               /\ r.mime_type = "unknown"
               /\ r.error # None
          /\ o = "body" =>
               /\ FromResponse(r, tasks[i].body)
               /\ r.content_length = 0
               /\ r.error # None
          /\ o = "save" =>
               /\ FromResponse(r, r.content_length)
               /\ r.error # None
          /\ o = "ok" =>
               /\ FromResponse(r, r.content_length)
               /\ r.error = None

\* C15 witness: three finished tasks show the three shapes that follow a
\* response: a 200 whose 7-byte body could not be read, one whose file could
\* not be written, and one saved.
C15_ThreeShapesAfterResponse ==
  \E i, j, k \in Spawned :
    /\ TaskDone(i) /\ TaskDone(j) /\ TaskDone(k)
    /\ tasks[i].outcome = "body"
    /\ tasks[i].status_code = 200
    /\ tasks[i].body = 7
    /\ tasks[i].content_length = 0
    /\ tasks[j].outcome = "save"
    /\ tasks[j].content_length = 7
    /\ tasks[k].outcome = "ok"
    /\ tasks[k].content_length = 7

----------------------------------------------------------------------------
(* The root that is not an index (main.rs:84, 98-101) *)

\* the requests sent for the root URL
RootFetches == Cardinality({k \in DOMAIN log : log[k].url = RootUrl})

\* C16: when the root document does not decode as a sitemap index,
\* parse_sitemap_urls decodes the content it fetched as a url-set: the root
\* URL is fetched once, and the locations returned are those of that content.
C16_RootFetchedOnce ==
  (RootFetched /\ ~DecodeSitemapIndex(RootDoc).ok /\ DiscoveryOver) =>
     /\ RootFetches = 1
     /\ DecodeUrlset(RootDoc).ok =>
          /\ mpc # "exit_discovery"
          /\ all_urls = DecodeUrlset(RootDoc).locs
     /\ ~DecodeUrlset(RootDoc).ok => mpc = "exit_discovery"

----------------------------------------------------------------------------
(* A child that is itself a sitemap index (main.rs:106-113) *)

\* the child request got a sitemap index for an answer
NestedIndex(entry) ==
  /\ fetch_sitemap(entry.resp).ok
  /\ IsIndexDoc(entry.resp.text[1])

NotNestedIndex(entry) == ~NestedIndex(entry)

\* C17: discovery goes one level deep: a child of the root index that is
\* itself a sitemap index parses without an error and with no location, the
\* list returned is what the other children give, no request is sent beyond
\* the root's own K children, and the children after it are still fetched.
C17_OneLevelDeep ==
  (RootFetched /\ IsIndexDoc(RootDoc)) =>
     /\ \A k \in 2..Len(log) :
          NestedIndex(log[k]) =>
             /\ parse_single_sitemap(log[k].resp).ok
             /\ parse_single_sitemap(log[k].resp).locs = <<>>
     /\ all_urls = Contributions(SelectSeq(Tail(log), NotNestedIndex))
     /\ \A k \in 2..Len(log) : log[k].url = DocLocs(RootDoc)[k - 1]
     /\ Len(log) <= 1 + Len(DocLocs(RootDoc))
     /\ DiscoveryOver =>
          /\ mpc # "exit_discovery"
          /\ Len(log) = 1 + Len(DocLocs(RootDoc))

\* C17 witness: the first child of the root index answered with a sitemap
\* index of two entries, the second child with a urlset, and discovery
\* returned the second child's two locations after three requests.
C17_NestedThenSibling ==
  /\ RootFetched
  /\ RootDoc = DocIndex
  /\ mpc = "parsed"
  /\ Len(log) = 3
  /\ NestedIndex(log[2])
  /\ Len(DocLocs(log[2].resp.text[1])) = 2
  /\ log[3].url = S2
  /\ log[3].resp.text = <<DocUrlsetA>>
  /\ all_urls = <<U1, U2>>

----------------------------------------------------------------------------
(* Runs without --save-files (main.rs:159) *)

\* C18: with save_files off no worker takes the registry lock or calls
\* url_to_filename: the registry stays empty, nobody holds the lock, no
\* worker is between the lock and the write, no result has a filename and
\* no page file is written.
C18_NoSaveNoRegistry ==
  ~save_files =>
     /\ used_names = {}
     /\ files = {}
     /\ holder = 0
     /\ InSection({"lock", "resolve", "insert", "write"}) = {}
     /\ \A i \in Spawned : tasks[i].filename = None /\ tasks[i].outcome # "save"

\* C18 witness: a run of two workers without save_files ended with three
\* pages read and nothing saved.
C18_ThreePagesNothingSaved ==
  /\ ~save_files
  /\ threads = 2
  /\ mpc = "done"
  /\ Len(results) = 3
  /\ \A i \in DOMAIN results :
       results[i].error = None /\ results[i].content_length = 7
  /\ files = {}
  /\ used_names = {}

----------------------------------------------------------------------------
(* The gate and the lock together (main.rs:244-249, 159-162) *)

\* some worker takes a step
WorkerStep ==
  \E i \in Spawned :
    \/ Acquire(i)
    \/ Send(i)
    \/ ReadBody(i)
    \/ Lock(i)
    \/ Resolve(i)
    \/ Insert(i)
    \/ Write(i)

Unfinished == {i \in Spawned : ~TaskDone(i)}

\* some worker is at a step that waits for no other worker: a request, a
\* body read, the name resolution, the insertion or a file write
SoloStepPending ==
  InSection({"send", "read", "resolve", "insert", "write"}) # {}

\* C19: with a limit of 1 or more the gate and the lock do not deadlock: a
\* worker waiting for the lock holds a slot, the lock's holder is past the
\* gate and is at the name resolution or the insertion, which block on
\* nothing, and whenever every unfinished task waits at the gate or for the
\* lock some worker can take a step.
C19_GateAndLockNeverDeadlock ==
  /\ \A i \in InSection({"lock", "resolve", "insert"}) : HoldsPermit(i)
  /\ holder # 0 =>
       /\ holder \in Spawned
       /\ tasks[holder].pc \in {"resolve", "insert"}
  /\ \A i \in InSection({"acquire"}) : holder # i
  /\ (threads >= 1 /\ Unfinished # {} /\ ~SoloStepPending) =>
        ENABLED WorkerStep

\* C19 witness: with two slots, one worker waits at the gate, one waits for
\* the lock with a slot in hand, and one holds the lock and a slot.
C19_BothQueuesOccupied ==
  /\ threads = 2
  /\ permits = 0
  /\ \E i, j, k \in Spawned :
       /\ tasks[i].pc = "acquire"
       /\ tasks[j].pc = "lock"
       /\ tasks[k].pc = "insert"
       /\ holder = k

----------------------------------------------------------------------------
(* The status code and the error (main.rs:145-183, 270-273) *)

\* the messages of the three per-page failures, keyed by what failed
FailureMessage(o) ==
  CASE o = "request" -> "Request failed"
    [] o = "body" -> "Failed to read response body"
    [] o = "save" -> "Failed to save file"

\* C20: a page whose response came and whose body was read has error unset
\* whatever its status code, 4xx and 5xx included, unless its file could not
\* be written; an error is always one of the transport, body-read and
\* file-write failures; and the summary counts as successful exactly the
\* pages that were read (and saved when asked), as failed the others.
C20_StatusIsNotAnError ==
  /\ \A i \in Spawned :
       TaskDone(i) =>
         LET r == PageResultOf(tasks[i])
             o == tasks[i].outcome
         IN  /\ (r.status_code # 0 /\ o \notin {"body", "save"}) =>
                  r.error = None
             /\ r.error # None =>
                  /\ o \in PageFailures
                  /\ r.error = Some(FailureMessage(o))
  /\ summary # None =>
       /\ summary[1].successful =
            Cardinality({i \in DOMAIN results : tasks[i].outcome = "ok"})
       /\ summary[1].failed =
            Cardinality({i \in DOMAIN results :
                           tasks[i].outcome \in PageFailures})

\* C20 witness: the summary counts a 404 page as its one success and a 200
\* page whose body could not be read as its one failure.
C20_NotFoundCountsAsSuccess ==
  /\ summary # None
  /\ Len(results) = 2
  /\ results[1].status_code = 404
  /\ results[1].error = None
  /\ results[2].status_code = 200
  /\ results[2].error = Some("Failed to read response body")
  /\ summary[1].successful = 1
  /\ summary[1].failed = 1

====
